---- MODULE Spec2Model ----
(***************************************************************************)
(* The time model of StarForge: Clock (src/src/system/timing.ts), its     *)
(* periodic time publisher, and the throttle utility                       *)
(* (src/src/system/throttler.ts, duplicated in timing.ts).                 *)
(*                                                                         *)
(* Real time is the integer `now` (milliseconds).  Every Clock method runs *)
(* to completion at one real instant (single-threaded event loop), so a    *)
(* method is a function from the Clock's fields and `now` to the new       *)
(* fields.  Deferred callbacks (setTimeout / setInterval) live in the      *)
(* host's timer table and run as separate steps once they are due; the     *)
(* host may run them late, never early.                                    *)
(***************************************************************************)
EXTENDS Integers, Sequences, FiniteSets, TLC

\* ---------------------------------------------------------------- bounds
NowInit == 10            \* real time at construction
MaxElapsed == 4          \* real time explored by the Clock specification
MaxPubElapsed == 2001    \* real time explored by the publisher specification
PubStep == 500           \* real time passes in steps of PubStep there
MaxNegScale == 1         \* scales passed to setScale: -MaxNegScale..MaxScale
MaxScale == 2
MaxSetTime == 1          \* times passed to setTime / the constructor: 0..MaxSetTime
MaxTimerIds == 3         \* host timer ids handed out in the publisher specification
Threshold == 3           \* throttle(threshold, ...)
MaxCalls == 4            \* calls of the throttled wrapper
MaxThrottleElapsed == 7  \* real time explored by the throttle specification
MaxArg == 2              \* arguments passed to the wrapper: 1..MaxArg
TimeOrigin == 3          \* Date.now() at the origin of performance.now()
MaxTimerElapsed == 2     \* real time explored by the Timer specification
MaxTimerNames == 1       \* timer names used there: 1..MaxTimerNames
MaxTimerObjs == 1        \* Timer objects constructed there
MaxRegElapsed == 1       \* real time explored by the registry specification
MaxNames == 2            \* timer names used there: 1..MaxNames
MaxRegObjs == 2          \* Timer objects constructed there
MaxUnits == 2            \* amounts converted: 0..MaxUnits
MaxUnitCode == 6         \* unit codes passed to the conversions: 0..MaxUnitCode
MaxField == 1            \* values of a TimePeriod field: 0..MaxField
MaxSampleElapsed == 2    \* real time explored by the sampling specification

\* ------------------------------------------------------------- constants
PublishPeriod == 1000    \* setInterval(..., 1000)

\* number | undefined: <<>> is undefined, <<v>> is the value v
Undef == <<>>
Some(v) == <<v>>
Val(o) == o[1]
B2N(b) == IF b THEN 1 ELSE 0

MinScale == 0 - MaxNegScale
Scales == MinScale..MaxScale
SetTimes == 0..MaxSetTime
Args == 1..MaxArg
Names == 1..MaxNames
TimerNames == 1..MaxTimerNames
\* the keys a Map<string, Timer> is asked for
AllNames == Names \cup TimerNames

VARIABLES
    now,          \* Date.now() / new Date().getTime()
    clock,        \* the fields of the Clock instance
    hostTimers,   \* the host's table of active setTimeout / setInterval timers
    nextTimerId,  \* the next id the host hands out
    last,         \* throttle closure: last
    timeoutId,    \* throttle closure: timeoutId
    op,           \* history: the operation performed by the last step
    expected,     \* history: t0 + the sum of (interval length * scale in force)
    reqScale,     \* history: argument of the most recent setScale (1 if none)
    reqPaused,    \* history: argument of the most recent setPaused (FALSE if none)
    pauseS,       \* history: scale field at the moment the latest pause began
    pauseNewS,    \* history: last setScale argument during the latest pause
    pausedFor,    \* history: real time that passed during the latest pause
    lastEnable,   \* history: argument of the most recent enableTimePublisher
    disabledDue,  \* history: a publish was due when the publisher was last disabled
    calls,        \* history: wrapper calls, <<[t, arg]>>
    invocations,  \* history: invocations of the target action, <<[t, arg]>>
    timerObjs,    \* the Timer objects constructed so far, by identity
    timerHist,    \* history: per Timer object, what happened since its samples
    ret,          \* history: the value returned by the last Timer / read operation
    conv,         \* history: the last time-unit conversion, its inputs and outcome
    sample        \* history: the interval covered by the last observed getDelta

clockVars == <<clock>>
hostVars == <<hostTimers, nextTimerId>>
throttleVars == <<last, timeoutId, calls, invocations>>
pubHist == <<lastEnable, disabledDue>>
timerVars == <<timerObjs, timerHist, ret>>
clockHist == <<reqScale, reqPaused, pauseS, pauseNewS, pausedFor>>
vars == <<now, clock, hostTimers, nextTimerId, last, timeoutId, op, expected,
          reqScale, reqPaused, pauseS, pauseNewS, pausedFor, lastEnable, disabledDue,
          calls, invocations, timerObjs, timerHist, ret, conv,
          sample>>

\* JavaScript truthiness of a number | undefined
Truthy(o) == o # Undef /\ Val(o) # 0

\* ------------------------------------------------------- time-unit conversions
\* JavaScript numbers as exact fractions n / d, d > 0, in lowest terms
RECURSIVE GCD(_, _)
GCD(a, b) == IF b = 0 THEN a ELSE GCD(b, a % b)
Abs(x) == IF x < 0 THEN 0 - x ELSE x
Norm(n, d) ==
    IF n = 0 THEN [n |-> 0, d |-> 1]
    ELSE LET g == GCD(Abs(n), d) IN [n |-> n \div g, d |-> d \div g]
RInt(k) == [n |-> k, d |-> 1]
RAdd(a, b) == Norm(a.n * b.d + b.n * a.d, a.d * b.d)
RSub(a, b) == Norm(a.n * b.d - b.n * a.d, a.d * b.d)
RMul(a, b) ==
    LET g1 == GCD(Abs(a.n), b.d)
        g2 == GCD(Abs(b.n), a.d)
    IN  IF a.n = 0 \/ b.n = 0 THEN RInt(0)
        ELSE [n |-> (a.n \div g1) * (b.n \div g2), d |-> (a.d \div g2) * (b.d \div g1)]
\* a / b for b > 0
RDiv(a, b) == RMul(a, [n |-> b.d, d |-> b.n])

\* enum TimeUnit
Milliseconds == 0
Seconds == 1
Minutes == 2
Hours == 3
Days == 4

\* a TimePeriod: every field is number | undefined
EmptyPeriod ==
    [days |-> Undef, hours |-> Undef, minutes |-> Undef, seconds |-> Undef,
     millis |-> Undef]

\* the outcome of a call: a number, a TimePeriod, or an Error thrown
Value(r) == [kind |-> "value", num |-> r, period |-> EmptyPeriod]
PeriodValue(p) == [kind |-> "period", num |-> RInt(0), period |-> p]
Thrown == [kind |-> "error", num |-> RInt(0), period |-> EmptyPeriod]
NoConversion ==
    [fn |-> "none", input |-> Value(RInt(0)), unit |-> Undef, result |-> Value(RInt(0))]

\* `x ? x * k : 0` on a field that is number | undefined
FieldTimes(f, k) ==
    IF f # Undef /\ Val(f).n # 0 THEN RMul(Val(f), RInt(k)) ELSE RInt(0)

timePeriodToMs(timePeriod) ==
    LET secondsToMillis == 1000
        minutesToMillis == 60 * secondsToMillis
        hoursToMillis == 60 * minutesToMillis
        daysToMillis == 24 * hoursToMillis
    IN  RAdd(RAdd(RAdd(RAdd(FieldTimes(timePeriod.days, daysToMillis),
                            FieldTimes(timePeriod.hours, hoursToMillis)),
                       FieldTimes(timePeriod.minutes, minutesToMillis)),
                  FieldTimes(timePeriod.seconds, secondsToMillis)),
             FieldTimes(timePeriod.millis, 1))

\* a parameter `unit: TimeUnit = TimeUnit.Milliseconds`
DefaultUnit(unit) == IF unit = Undef THEN Milliseconds ELSE Val(unit)

ApplyOp(opr, a, k) == IF opr = "div" THEN RDiv(a, RInt(k)) ELSE RMul(a, RInt(k))

\* convert whose `default:` returns units instead of throwing
convertNoThrow(units, unit, opr) ==
    LET u == DefaultUnit(unit)
    IN  CASE u = Milliseconds -> Value(units)
          [] u = Seconds -> Value(ApplyOp(opr, units, 1000))
          [] u = Minutes -> Value(ApplyOp(opr, units, 60000))
          [] u = Hours -> Value(ApplyOp(opr, units, 3600000))
          [] u = Days -> Value(ApplyOp(opr, units, 86400000))
          [] OTHER -> Value(units)

convert(units, unit, opr) ==
    LET u == DefaultUnit(unit)
    IN  CASE u = Milliseconds -> Value(units)
          [] u = Seconds -> Value(ApplyOp(opr, units, 1000))
          [] u = Minutes -> Value(ApplyOp(opr, units, 60000))
          [] u = Hours -> Value(ApplyOp(opr, units, 3600000))
          [] u = Days -> Value(ApplyOp(opr, units, 86400000))
          [] OTHER -> Thrown

timeMsToUnits(timeMs, unit) == convert(timeMs, unit, "div")

unitsToMs(units, baseUnit) == convert(units, baseUnit, "mul")

timePeriodToUnits(timePeriod, unit) ==
    timeMsToUnits(timePeriodToMs(timePeriod), unit)

unitsToTimePeriod(units, baseUnit) ==
    LET r == unitsToMs(units, baseUnit)
        ms == r.num
        one(f) == timePeriodToMs([EmptyPeriod EXCEPT ![f] = Some(RInt(1))])
        p1 == [EmptyPeriod EXCEPT !.days = Some(RDiv(ms, one("days")))]
        p2 == [p1 EXCEPT !.hours =
                  Some(RDiv(RSub(ms, timePeriodToMs(p1)), one("hours")))]
        p3 == [p2 EXCEPT !.minutes =
                  Some(RDiv(RSub(ms, timePeriodToMs(p2)), one("minutes")))]
        p4 == [p3 EXCEPT !.seconds =
                  Some(RDiv(RSub(ms, timePeriodToMs(p3)), one("seconds")))]
        p5 == [p4 EXCEPT !.millis =
                  Some(RDiv(RSub(ms, timePeriodToMs(p4)), one("millis")))]
    IN  IF r.kind = "error" THEN Thrown ELSE PeriodValue(p5)

\* ------------------------------------------------------------ Clock methods
isPaused(c) == c._isPaused

\* setTime that also resumes the clock at its saved scale
setTimeResume(c, t, timeMs) ==
    [c EXCEPT !.realTimestampMs = t, !.clockTimeMs = timeMs,
              !._isPaused = FALSE,
              !.scale = IF c._isPaused THEN c.savedScale ELSE c.scale]

\* setTime without `this.realTimestampMs = Date.now()`
setTimeKeepAnchor(c, t, timeMs) ==
    [c EXCEPT !.clockTimeMs = timeMs]

\* setTime that puts a paused clock's saved scale back into force
setTimeRestoreScale(c, t, timeMs) ==
    [c EXCEPT !.realTimestampMs = t, !.clockTimeMs = timeMs,
              !.scale = IF c._isPaused THEN c.savedScale ELSE c.scale]

setTime(c, t, timeMs) ==
    [c EXCEPT !.realTimestampMs = t, !.clockTimeMs = timeMs]

getTime(c, t) ==
    LET realTimeDelta == t - c.realTimestampMs
    IN  c.clockTimeMs + realTimeDelta * c.scale

\* getScale as `return this.scale`
getScaleField(c) == c.scale

getScale(c) == IF isPaused(c) THEN c.savedScale ELSE c.scale

\* the read methods as calls: the Clock after the call and the value returned
\* getTime() that re-anchors the clock at the value it returns
callGetTimeCollapse(c, t) ==
    [clock |-> setTime(c, t, getTime(c, t)), result |-> getTime(c, t)]

callGetTime(c, t) == [clock |-> c, result |-> getTime(c, t)]
callGetScale(c) == [clock |-> c, result |-> getScale(c)]
callIsPaused(c) == [clock |-> c, result |-> B2N(isPaused(c))]

\* setScale without `this.setTime(this.getTime())`
setScaleNoCollapse(c, t, scale) ==
    IF isPaused(c)
    THEN [c EXCEPT !.savedScale = scale]
    ELSE [c EXCEPT !.scale = scale]

\* setScale without the `if(this.isPaused())` branch
setScaleIgnorePause(c, t, scale) ==
    [setTime(c, t, getTime(c, t)) EXCEPT !.scale = scale]

setScale(c, t, scale) ==
    IF isPaused(c)
    THEN [c EXCEPT !.savedScale = scale]
    ELSE [setTime(c, t, getTime(c, t)) EXCEPT !.scale = scale]

\* setPaused without `this.setScale(0)` when pausing
setPausedFlagOnly(c, t, value) ==
    IF value
    THEN IF ~isPaused(c)
         THEN [c EXCEPT !.savedScale = c.scale, !._isPaused = TRUE]
         ELSE c
    ELSE IF isPaused(c)
         THEN setScale([c EXCEPT !._isPaused = FALSE], t, c.savedScale)
         ELSE c

\* setPaused without the `if(!this.isPaused())` guard when pausing
setPausedNoGuard(c, t, value) ==
    IF value
    THEN LET c1 == [c EXCEPT !.savedScale = c.scale]
             c2 == setScale(c1, t, 0)
         IN  [c2 EXCEPT !._isPaused = TRUE]
    ELSE IF isPaused(c)
         THEN setScale([c EXCEPT !._isPaused = FALSE], t, c.savedScale)
         ELSE c

\* setPaused that raises the flag before `this.setScale(0)` when pausing
setPausedFlagFirst(c, t, value) ==
    IF value
    THEN IF ~isPaused(c)
         THEN LET c1 == [c EXCEPT !.savedScale = c.scale, !._isPaused = TRUE]
              IN  setScale(c1, t, 0)
         ELSE c
    ELSE IF isPaused(c)
         THEN LET c1 == [c EXCEPT !._isPaused = FALSE]
              IN  setScale(c1, t, c1.savedScale)
         ELSE c

setPaused(c, t, value) ==
    IF value
    THEN IF ~isPaused(c)
         THEN LET c1 == [c EXCEPT !.savedScale = c.scale]
                  c2 == setScale(c1, t, 0)
              IN  [c2 EXCEPT !._isPaused = TRUE]
         ELSE c
    ELSE IF isPaused(c)
         THEN LET c1 == [c EXCEPT !._isPaused = FALSE]
              IN  setScale(c1, t, c1.savedScale)
         ELSE c

\* new Clock(clockTimeMs): field initialisers, then setTime(clockTimeMs)
NewClock(t, clockTimeMs) ==
    setTime([clockTimeMs |-> 0, realTimestampMs |-> 0, _isPaused |-> FALSE,
             scale |-> 1, savedScale |-> 1, timers |-> [n \in AllNames |-> Undef],
             timePublisherId |-> Undef],
            t, clockTimeMs)

\* ------------------------------------------------------------- host timers
\* clearTimeout / clearInterval share one table of active timers
\* (id is number | undefined; clearing undefined or a stale id does nothing)
clearTimeout(table, id) == {e \in table : Some(e.id) # id}

\* a negative delay is treated as 0
ClampDelay(d) == IF d < 0 THEN 0 ELSE d

TimerEntry(id, repeat, due, cb, capNow, args) ==
    [id |-> id, repeat |-> repeat, due |-> due, cb |-> cb,
     capNow |-> capNow, args |-> args]

\* enableTimePublisher without `clearTimeout(this.timePublisherId)`
enableTimePublisherNoClear(c, table, nextId, t, isEnabled) ==
    IF isEnabled
    THEN IF Truthy(c.timePublisherId)
         THEN [clock |-> c, hostTimers |-> table, nextTimerId |-> nextId]
         ELSE [clock |-> [c EXCEPT !.timePublisherId = Some(nextId)],
               hostTimers |-> table \cup
                   {TimerEntry(nextId, TRUE, t + PublishPeriod, "publish", 0, 0)},
               nextTimerId |-> nextId + 1]
    ELSE [clock |-> [c EXCEPT !.timePublisherId = Undef],
          hostTimers |-> table, nextTimerId |-> nextId]

\* enableTimePublisher without `if(this.timePublisherId){ return; }`
enableTimePublisherNoGuard(c, table, nextId, t, isEnabled) ==
    IF isEnabled
    THEN [clock |-> [c EXCEPT !.timePublisherId = Some(nextId)],
          hostTimers |-> table \cup
              {TimerEntry(nextId, TRUE, t + PublishPeriod, "publish", 0, 0)},
          nextTimerId |-> nextId + 1]
    ELSE IF ~Truthy(c.timePublisherId)
         THEN [clock |-> c, hostTimers |-> table, nextTimerId |-> nextId]
         ELSE [clock |-> [c EXCEPT !.timePublisherId = Undef],
               hostTimers |-> clearTimeout(table, c.timePublisherId),
               nextTimerId |-> nextId]

\* Clock.enableTimePublisher(isEnabled), on the Clock and the host's timers
enableTimePublisher(c, table, nextId, t, isEnabled) ==
    LET same == [clock |-> c, hostTimers |-> table, nextTimerId |-> nextId]
    IN  IF isEnabled
        THEN IF Truthy(c.timePublisherId)
             THEN same
             ELSE [clock |-> [c EXCEPT !.timePublisherId = Some(nextId)],
                   hostTimers |-> table \cup
                       {TimerEntry(nextId, TRUE, t + PublishPeriod, "publish", 0, 0)},
                   nextTimerId |-> nextId + 1]
        ELSE IF ~Truthy(c.timePublisherId)
             THEN same
             ELSE [clock |-> [c EXCEPT !.timePublisherId = Undef],
                   hostTimers |-> clearTimeout(table, c.timePublisherId),
                   nextTimerId |-> nextId]

\* the wrapper without `clearTimeout(timeoutId)`
throttledNoClear(lst, tid, table, nextId, t, args) ==
    LET last1 == IF Truthy(lst) THEN lst ELSE Some(t - Threshold)
        delay == Threshold - (t - Val(last1))
    IN  [last |-> last1,
         timeoutId |-> Some(nextId),
         hostTimers |-> table \cup
             {TimerEntry(nextId, FALSE, t + ClampDelay(delay), "throttled", t, args)},
         nextTimerId |-> nextId + 1]

\* the wrapper with the delay `(now - last) - threshold`
throttledWrongDelay(lst, tid, table, nextId, t, args) ==
    LET last1 == IF Truthy(lst) THEN lst ELSE Some(t - Threshold)
        delay == (t - Val(last1)) - Threshold
    IN  [last |-> last1,
         timeoutId |-> Some(nextId),
         hostTimers |-> clearTimeout(table, tid) \cup
             {TimerEntry(nextId, FALSE, t + ClampDelay(delay), "throttled", t, args)},
         nextTimerId |-> nextId + 1]

\* the wrapper returned by throttle(threshold, scope, fn), called with args at t
throttled(lst, tid, table, nextId, t, args) ==
    LET last1 == IF Truthy(lst) THEN lst ELSE Some(t - Threshold)
        delay == Threshold - (t - Val(last1))
    IN  [last |-> last1,
         timeoutId |-> Some(nextId),
         hostTimers |-> clearTimeout(table, tid) \cup
             {TimerEntry(nextId, FALSE, t + ClampDelay(delay), "throttled", t, args)},
         nextTimerId |-> nextId + 1]

\* ------------------------------------------------------------------- Timer
\* a returned value: a number, NaN, undefined, or nothing returned yet
Num(v) == [kind |-> "number", val |-> v]
NaN == [kind |-> "NaN", val |-> 0]
Undefined == [kind |-> "undefined", val |-> 0]
NoValue == [kind |-> "none", val |-> 0]

\* performance.now(): milliseconds since the time origin
perfNow(t) == t - TimeOrigin

\* new Timer(clock, name): `timestamp!: number` is declared, not assigned
NewTimer(name) == [name |-> name, timestamp |-> Undef]

\* Timer.start()
timerStart(objs, id, t) ==
    [objs EXCEPT ![id].timestamp = Some(perfNow(t))]

\* Timer.getDelta() without `this.timestamp = now`
timerGetDeltaNoUpdate(c, objs, id, t) ==
    LET nw == perfNow(t)
        ts == objs[id].timestamp
        delta == IF ts = Undef THEN NaN ELSE Num(c.scale * (nw - Val(ts)))
    IN  [objs |-> objs, result |-> delta]

\* Timer.getDelta() with `timestamp` shared by all Timers (a static field)
timerGetDeltaShared(c, objs, id, t) ==
    LET nw == perfNow(t)
        ts == objs[id].timestamp
        delta == IF ts = Undef THEN NaN ELSE Num(c.scale * (nw - Val(ts)))
    IN  [objs |-> [i \in DOMAIN objs |-> [objs[i] EXCEPT !.timestamp = Some(nw)]],
         result |-> delta]

\* getDelta() with the elapsed time taken from the Clock's anchor, which
\* setScale and setPaused move: only the last piece of the interval counts
timerGetDeltaSinceAnchor(c, objs, id, t) ==
    LET nw == perfNow(t)
        ts == objs[id].timestamp
        delta == IF ts = Undef THEN NaN ELSE Num(c.scale * (t - c.realTimestampMs))
    IN  [objs |-> [objs EXCEPT ![id].timestamp = Some(nw)], result |-> delta]

\* getDelta() that multiplies by clock.getScale() instead of clock.scale
timerGetDeltaGetScale(c, objs, id, t) ==
    LET nw == perfNow(t)
        ts == objs[id].timestamp
        delta == IF ts = Undef THEN NaN ELSE Num(getScale(c) * (nw - Val(ts)))
    IN  [objs |-> [objs EXCEPT ![id].timestamp = Some(nw)], result |-> delta]

\* Timer.getDelta(): a number times undefined is NaN
timerGetDelta(c, objs, id, t) ==
    LET nw == perfNow(t)
        ts == objs[id].timestamp
        delta == IF ts = Undef THEN NaN ELSE Num(c.scale * (nw - Val(ts)))
    IN  [objs |-> [objs EXCEPT ![id].timestamp = Some(nw)], result |-> delta]

\* Clock.createTimer(timerId)
createTimer(c, objs, timerId) ==
    LET timer == Len(objs) + 1
    IN  [clock |-> [c EXCEPT !.timers[timerId] = Some(timer)],
         objs |-> Append(objs, NewTimer(timerId)),
         timer |-> timer]

\* startTimer as `this.createTimer(timerId).start()`
startTimerAlwaysCreate(c, objs, timerId, t) ==
    LET r == createTimer(c, objs, timerId)
    IN  [clock |-> r.clock,
         objs |-> timerStart(r.objs, r.timer, t),
         timer |-> r.timer]

\* Clock.startTimer(timerId)
startTimer(c, objs, timerId, t) ==
    IF c.timers[timerId] # Undef
    THEN [clock |-> c,
          objs |-> timerStart(objs, Val(c.timers[timerId]), t),
          timer |-> Val(c.timers[timerId])]
    ELSE LET r == createTimer(c, objs, timerId)
         IN  [clock |-> r.clock,
              objs |-> timerStart(r.objs, r.timer, t),
              timer |-> r.timer]

\* getDelta as `this.startTimer(timerId).getDelta()`
clockGetDeltaAutoCreate(c, objs, timerId, t) ==
    LET r == startTimer(c, objs, timerId, t)
    IN  timerGetDelta(r.clock, r.objs, r.timer, t)

\* Clock.getDelta(timerId): this.timers.get(timerId)?.getDelta()
clockGetDelta(c, objs, timerId, t) ==
    IF c.timers[timerId] = Undef
    THEN [objs |-> objs, result |-> Undefined]
    ELSE timerGetDelta(c, objs, Val(c.timers[timerId]), t)

\* no getDelta observed yet
NoSample == [elapsed |-> 0, truth |-> 0, changed |-> FALSE]

\* the scale in force: what the callers asked for
Rate == IF reqPaused THEN 0 ELSE reqScale

\* history of a Timer object that has not sampled yet.  simAtStart, acc and
\* polls are kept only while constSinceStart holds, simAtLast only until a
\* setTime: beyond that nothing is stated about them.
NewHist ==
    [simAtStart |-> 0, acc |-> 0, polls |-> 0, constSinceStart |-> FALSE,
     sampledAt |-> Undef, simAtLast |-> 0, setTimeSince |-> FALSE,
     rateChangedSince |-> FALSE]

\* history after a Clock operation that kept the rate (or not) or set the time
MarkTimers(rateSame, timeSet) ==
    [i \in DOMAIN timerHist |->
        LET h == timerHist[i]
            const == h.constSinceStart /\ rateSame /\ ~timeSet
        IN  IF h.sampledAt = Undef THEN h
            ELSE [simAtStart |-> IF const THEN h.simAtStart ELSE 0,
                  acc |-> IF const THEN h.acc ELSE 0,
                  polls |-> IF const THEN h.polls ELSE 0,
                  constSinceStart |-> const,
                  sampledAt |-> h.sampledAt,
                  simAtLast |-> IF h.setTimeSince \/ timeSet THEN 0 ELSE h.simAtLast,
                  setTimeSince |-> h.setTimeSince \/ timeSet,
                  rateChangedSince |-> h.rateChangedSince \/ ~rateSame]]

\* history after start() of Timer object id
HistStart(h, id) ==
    [h EXCEPT ![id] =
        [simAtStart |-> getTime(clock, now), acc |-> 0, polls |-> 0,
         constSinceStart |-> TRUE, sampledAt |-> Some(now),
         simAtLast |-> getTime(clock, now), setTimeSince |-> FALSE,
         rateChangedSince |-> FALSE]]

\* history after getDelta() of Timer object id returned result
HistDelta(h, id, result) ==
    [h EXCEPT ![id] =
        [@ EXCEPT
            !.acc = IF h[id].constSinceStart THEN @ + result.val ELSE 0,
            !.polls = IF h[id].constSinceStart /\ @ < 2 THEN @ + 1 ELSE @,
            !.sampledAt = Some(now),
            !.simAtLast = getTime(clock, now),
            !.setTimeSince = FALSE,
            !.rateChangedSince = FALSE]]

Constructed ==
    /\ now = NowInit
    /\ \E t0 \in SetTimes :
          /\ clock = NewClock(NowInit, t0)
          /\ expected = t0
    /\ hostTimers = {}
    /\ nextTimerId = 1
    /\ last = Undef
    /\ timeoutId = Undef
    /\ op = [name |-> "new", arg |-> 0]
    /\ reqScale = 1
    /\ reqPaused = FALSE
    /\ pauseS = Undef
    /\ pauseNewS = Undef
    /\ pausedFor = 0
    /\ lastEnable = Undef
    /\ disabledDue = FALSE
    /\ calls = <<>>
    /\ invocations = <<>>
    /\ timerObjs = <<>>
    /\ timerHist = <<>>
    /\ ret = NoValue
    /\ sample = NoSample

Init ==
    /\ Constructed
    /\ conv = NoConversion

\* real time passes
AdvanceTime(d, limit) ==
    /\ now + d <= NowInit + limit
    /\ now' = now + d
    /\ expected' = expected + Rate * d
    /\ pausedFor' = IF reqPaused THEN pausedFor + d ELSE pausedFor
    /\ op' = [name |-> "advance", arg |-> d]
    /\ UNCHANGED <<clockVars, hostVars, throttleVars, reqScale, reqPaused, pauseS,
                   pauseNewS, pubHist, timerObjs, timerHist, conv, sample>>
    /\ ret' = NoValue

Advance == AdvanceTime(1, MaxElapsed)

SetTime ==
    \E t \in SetTimes :
        /\ clock' = setTime(clock, now, t)
        /\ expected' = t
        /\ op' = [name |-> "setTime", arg |-> t]
        /\ timerHist' = MarkTimers(TRUE, TRUE)
        /\ ret' = NoValue
        /\ UNCHANGED <<now, hostVars, throttleVars, clockHist, pubHist, timerObjs,
                       conv, sample>>

SetScale ==
    \E s \in Scales :
        /\ clock' = setScale(clock, now, s)
        /\ reqScale' = s
        /\ pauseNewS' = IF reqPaused THEN Some(s) ELSE pauseNewS
        /\ op' = [name |-> "setScale", arg |-> s]
        /\ timerHist' = MarkTimers((IF reqPaused THEN 0 ELSE s) = Rate, FALSE)
        /\ UNCHANGED <<now, hostVars, throttleVars, expected, reqPaused, pauseS,
                       pausedFor, pubHist, timerObjs, conv, sample>>
        /\ ret' = NoValue

SetPaused ==
    \E v \in BOOLEAN :
        /\ clock' = setPaused(clock, now, v)
        /\ reqPaused' = v
        /\ pauseS' = IF v /\ ~reqPaused THEN Some(clock.scale) ELSE pauseS
        /\ pauseNewS' = IF v /\ ~reqPaused THEN Undef ELSE pauseNewS
        /\ pausedFor' = IF v /\ ~reqPaused THEN 0 ELSE pausedFor
        /\ op' = [name |-> "setPaused", arg |-> B2N(v)]
        /\ timerHist' = MarkTimers((IF v THEN 0 ELSE reqScale) = Rate, FALSE)
        /\ ret' = NoValue
        /\ UNCHANGED <<now, hostVars, throttleVars, expected, reqScale, pubHist,
                       timerObjs, conv, sample>>

\* a read method is called; only the histories of the call change
ReadFrame ==
    /\ timerHist' = timerHist
    /\ ret' = NoValue
    /\ UNCHANGED <<now, hostVars, throttleVars, expected, clockHist, pubHist,
                   timerObjs, conv, sample>>

ReadGetTime ==
    LET r == callGetTime(clock, now)
    IN  /\ clock' = r.clock
        /\ op' = [name |-> "getTime", arg |-> r.result]
        /\ ReadFrame

ReadGetScale ==
    LET r == callGetScale(clock)
    IN  /\ clock' = r.clock
        /\ op' = [name |-> "getScale", arg |-> r.result]
        /\ ReadFrame

ReadIsPaused ==
    LET r == callIsPaused(clock)
    IN  /\ clock' = r.clock
        /\ op' = [name |-> "isPaused", arg |-> r.result]
        /\ ReadFrame

Next ==
    \/ Advance
    \/ SetTime
    \/ SetScale
    \/ SetPaused
    \/ ReadGetTime
    \/ ReadGetScale
    \/ ReadIsPaused

Spec == Init /\ [][Next]_vars

\* getTime() at the current real instant, before and after a step
GetTime == getTime(clock, now)
GetTimeNext == getTime(clock', now')
IsOp(name, arg) == op'.name = name /\ op'.arg = arg

\* C1 (continuity): a setScale(s) on a clock that is not paused leaves getTime()
\* at that real instant unchanged and makes s the scale; afterwards real time d
\* changes getTime() by s * d.
C1_Continuity ==
    [][ /\ (op'.name = "setScale" /\ ~reqPaused) =>
              /\ GetTimeNext = GetTime
              /\ clock'.scale = op'.arg
        /\ (op'.name = "advance" /\ ~reqPaused) =>
              GetTimeNext = GetTime + reqScale * op'.arg ]_vars

C1_Witness ==
    /\ op = [name |-> "setScale", arg |-> MinScale]
    /\ ~reqPaused
    /\ clock.realTimestampMs = NowInit + 2
    /\ clock.clockTimeMs = 2 * MaxScale
    /\ GetTime = expected

\* C2 (anchor formula): getTime() equals t0 (the last setTime / constructor value)
\* plus, over every real interval since then, its length times the scale in
\* force (0 while paused).
C2_Integral == GetTime = expected

\* setTime(0), setScale(MaxScale), 2 ms, setScale(MinScale), 1 ms
C2_Witness ==
    /\ op.name = "advance"
    /\ reqScale = MinScale
    /\ ~reqPaused
    /\ clock.clockTimeMs = 2 * MaxScale
    /\ clock.realTimestampMs = NowInit + 2
    /\ now = NowInit + 3
    /\ GetTime = 2 * MaxScale + MinScale

\* C3 (pause freeze and restoration): while paused getTime() does not change
\* with real time (absent setTime); pausing freezes it at its value at that
\* instant; resuming with no setScale during the pause continues from the
\* frozen value at the scale S the clock had when it was paused.
C3_PauseFreeze ==
    [][ /\ (reqPaused /\ op'.name \notin {"setTime", "setPaused"}) =>
              GetTimeNext = GetTime
        /\ (IsOp("setPaused", 1)) =>
              /\ isPaused(clock')
              /\ GetTimeNext = GetTime
        /\ (reqPaused /\ IsOp("setPaused", 0) /\ pauseNewS = Undef) =>
              /\ ~isPaused(clock')
              /\ GetTimeNext = GetTime
              /\ clock'.scale = Val(pauseS)
              /\ getTime(clock', now' + 1) = GetTime + Val(pauseS) ]_vars

C3_Witness ==
    /\ op = [name |-> "setPaused", arg |-> 0]
    /\ pausedFor >= 2
    /\ pauseNewS = Undef
    /\ pauseS = Some(MaxScale)
    /\ clock.scale = MaxScale
    /\ clock.realTimestampMs = now
    /\ clock.clockTimeMs > MaxSetTime

\* C4 (pause idempotence): setPaused(true) when already paused and
\* setPaused(false) when not paused change no Clock field; the scale saved by
\* the first pause is the one a later resume restores.
C4_PauseIdempotent ==
    [][ /\ (op'.name = "setPaused" /\ op'.arg = B2N(reqPaused)) => clock' = clock
        /\ (reqPaused /\ pauseNewS = Undef) =>
              /\ clock.savedScale = Val(pauseS)
              /\ (IsOp("setPaused", 0) => clock'.scale = Val(pauseS)) ]_vars

\* a second setPaused(true), 1 ms into a pause of a clock running at MaxScale
C4_Witness ==
    /\ op = [name |-> "setPaused", arg |-> 1]
    /\ reqPaused
    /\ pausedFor >= 1
    /\ pauseNewS = Undef
    /\ pauseS = Some(MaxScale)
    /\ clock.savedScale = MaxScale
    /\ clock.realTimestampMs < now

\* C5 (scale set while paused): setScale(newS) during a pause leaves the clock
\* paused and getTime() unchanged, then and while the pause lasts; the next
\* setPaused(false) makes the clock run at the last newS set during the pause.
C5_ScaleWhilePaused ==
    [][ /\ (reqPaused /\ op'.name = "setScale") =>
              /\ isPaused(clock')
              /\ GetTimeNext = GetTime
        /\ (reqPaused /\ pauseNewS # Undef /\ op'.name = "advance") =>
              GetTimeNext = GetTime
        /\ (reqPaused /\ pauseNewS # Undef /\ IsOp("setPaused", 0)) =>
              /\ ~isPaused(clock')
              /\ GetTimeNext = GetTime
              /\ clock'.scale = Val(pauseNewS)
              /\ getTime(clock', now' + 1) = GetTime + Val(pauseNewS) ]_vars

\* resumed at MinScale, set during a pause of a clock that ran at MaxScale
C5_Witness ==
    /\ op.name = "advance"
    /\ ~reqPaused
    /\ pausedFor >= 1
    /\ pauseS = Some(MaxScale)
    /\ pauseNewS = Some(MinScale)
    /\ clock.scale = MinScale
    /\ GetTime = clock.clockTimeMs + MinScale * (now - clock.realTimestampMs)
    /\ now > clock.realTimestampMs

\* C16 (getScale): getScale() is the argument of the most recent setScale (1
\* if none), paused or not; a getScale() call returns it, and setPaused does
\* not change it.
C16_GetScaleIsRequested ==
    [][ /\ getScale(clock) = reqScale
        /\ getScale(clock') = reqScale'
        /\ op'.name = "getScale" => op'.arg = reqScale
        /\ op'.name = "setPaused" => getScale(clock') = getScale(clock) ]_vars

\* getScale() called in a pause, after a setScale(MaxScale) during the pause
\* of a clock that ran at MinScale
C16_Witness ==
    /\ op = [name |-> "getScale", arg |-> MaxScale]
    /\ reqPaused
    /\ pauseS = Some(MinScale)
    /\ pauseNewS = Some(MaxScale)
    /\ clock.scale = 0
    /\ pausedFor >= 1

\* the step calls getTime(), getScale() or isPaused()
IsRead == op'.name \in {"getTime", "getScale", "isPaused"}

\* C18 (reads): getTime(), getScale() and isPaused() change no Clock field, no
\* Timer and nothing of the publisher; getTime() returns the anchor formula,
\* and two getTime() calls at one real instant return the same value.
C18_ReadsArePure ==
    [][ /\ IsRead => UNCHANGED <<clock, timerObjs, hostTimers, nextTimerId>>
        /\ op'.name = "getTime" =>
              op'.arg = clock.clockTimeMs + (now - clock.realTimestampMs) * clock.scale
        /\ op'.name = "isPaused" => op'.arg = B2N(reqPaused)
        /\ (op.name = "getTime" /\ op'.name = "getTime" /\ now' = now) =>
              op'.arg = op.arg ]_vars

\* getTime() read 2 ms after the anchor of a clock running at MaxScale
C18_Witness ==
    /\ op.name = "getTime"
    /\ ~reqPaused
    /\ clock.scale = MaxScale
    /\ now = clock.realTimestampMs + 2
    /\ op.arg = clock.clockTimeMs + 2 * MaxScale

\* C24 (setTime while paused): setTime(t) during a pause leaves the clock
\* paused with getTime() = t then and after any amount of real time; until the
\* resume getTime() stays at the value set; setPaused(false) then continues
\* from that value at the requested scale.
C24_SetTimeWhilePaused ==
    [][ /\ (reqPaused /\ op'.name = "setTime") =>
              /\ isPaused(clock')
              /\ clock'.clockTimeMs = op'.arg
              /\ \A d \in 0..MaxElapsed : getTime(clock', now' + d) = op'.arg
        /\ (reqPaused /\ reqPaused' /\ op'.name # "setTime") =>
              /\ clock'.clockTimeMs = clock.clockTimeMs
              /\ GetTimeNext = clock.clockTimeMs
        /\ (reqPaused /\ IsOp("setPaused", 0)) =>
              /\ ~isPaused(clock')
              /\ \A d \in 0..MaxElapsed :
                    getTime(clock', now' + d) = clock.clockTimeMs + reqScale * d ]_vars

\* 1 ms after a setTime(MaxSetTime) issued 1 ms or more into a pause of a
\* clock that ran at MaxScale: during a pause only setTime moves the anchor
C24_Witness ==
    /\ op.name = "advance"
    /\ isPaused(clock)
    /\ pausedFor >= 2
    /\ clock.realTimestampMs = now - 1
    /\ clock.savedScale = MaxScale
    /\ clock.clockTimeMs = MaxSetTime
    /\ GetTime = MaxSetTime

\* --------------------------------------------------------------------- Timer
TimerFrame ==
    UNCHANGED <<now, hostVars, throttleVars, expected, clockHist, pubHist, conv>>

TimerAdvance == AdvanceTime(1, MaxTimerElapsed)

CreateTimerIn(names, maxObjs) ==
    \E n \in names :
        LET r == createTimer(clock, timerObjs, n)
        IN  /\ Len(timerObjs) < maxObjs
            /\ clock' = r.clock
            /\ timerObjs' = r.objs
            /\ timerHist' = Append(timerHist, NewHist)
            /\ ret' = NoValue
            /\ op' = [name |-> "createTimer", arg |-> n]
            /\ UNCHANGED sample
            /\ TimerFrame

StartTimerIn(names, maxObjs) ==
    \E n \in names :
        LET r == startTimer(clock, timerObjs, n, now)
        IN  /\ Len(r.objs) <= maxObjs
            /\ clock' = r.clock
            /\ timerObjs' = r.objs
            /\ timerHist' = HistStart(IF Len(r.objs) > Len(timerObjs)
                                        THEN Append(timerHist, NewHist)
                                        ELSE timerHist, r.timer)
            /\ ret' = NoValue
            /\ op' = [name |-> "startTimer", arg |-> n]
            /\ UNCHANGED sample
            /\ TimerFrame

\* Clock.getDelta(n)
GetDeltaCall(n) ==
    LET r == clockGetDelta(clock, timerObjs, n, now)
    IN  /\ timerObjs' = r.objs
        /\ timerHist' = IF clock.timers[n] = Undef THEN timerHist
                         ELSE HistDelta(timerHist, Val(clock.timers[n]), r.result)
        /\ ret' = r.result
        /\ op' = [name |-> "getDelta", arg |-> n]
        /\ UNCHANGED clock
        /\ TimerFrame

GetDeltaIn(names) ==
    \E n \in names :
        /\ GetDeltaCall(n)
        /\ UNCHANGED sample

\* timer.start() on a Timer object a caller holds
TimerStart ==
    \E id \in DOMAIN timerObjs :
        /\ timerObjs' = timerStart(timerObjs, id, now)
        /\ timerHist' = HistStart(timerHist, id)
        /\ ret' = NoValue
        /\ op' = [name |-> "timer.start", arg |-> id]
        /\ UNCHANGED <<clock, sample>>
        /\ TimerFrame

\* timer.getDelta() on a Timer object a caller holds
TimerGetDelta ==
    \E id \in DOMAIN timerObjs :
        LET r == timerGetDelta(clock, timerObjs, id, now)
        IN  /\ timerObjs' = r.objs
            /\ timerHist' = HistDelta(timerHist, id, r.result)
            /\ ret' = r.result
            /\ op' = [name |-> "timer.getDelta", arg |-> id]
            /\ UNCHANGED <<clock, sample>>
            /\ TimerFrame

\* one Timer under every Clock operation
CreateTimer == CreateTimerIn(TimerNames, MaxTimerObjs)
StartTimer == StartTimerIn(TimerNames, MaxTimerObjs)
GetDelta == GetDeltaIn(TimerNames)

TimerNext ==
    \/ TimerAdvance
    \/ SetTime
    \/ SetScale
    \/ SetPaused
    \/ CreateTimer
    \/ StartTimer
    \/ GetDelta
    \/ TimerStart
    \/ TimerGetDelta

TimerSpec == Init /\ [][TimerNext]_vars

\* several Timers and names under setScale
RegAdvance == AdvanceTime(1, MaxRegElapsed)
RegCreateTimer == CreateTimerIn(Names, MaxRegObjs)
RegStartTimer == StartTimerIn(Names, MaxRegObjs)
RegGetDelta == GetDeltaIn(Names)

RegistryNext ==
    \/ RegAdvance
    \/ SetScale
    \/ RegCreateTimer
    \/ RegStartTimer
    \/ RegGetDelta
    \/ TimerStart
    \/ TimerGetDelta

RegistrySpec == Init /\ [][RegistryNext]_vars

\* the step polls a Timer: Clock.getDelta(name) of a registered name, or
\* getDelta() on a Timer object; PolledId is that Timer
IsPoll ==
    \/ op'.name = "timer.getDelta"
    \/ op'.name = "getDelta" /\ clock.timers[op'.arg] # Undef
PolledId ==
    IF op'.name = "timer.getDelta" THEN op'.arg ELSE Val(clock.timers[op'.arg])

\* C11 (delta under constant scale): for a Timer started at t0, with the scale
\* constant at S, the clock not paused and no setTime since, getDelta() returns
\* S * (real time since the last sample), which is the change of getTime()
\* over that interval, and the deltas returned since start() sum to the change
\* of getTime() since t0.
C11_TimerConstantScale ==
    [][ (IsPoll /\ timerHist[PolledId].constSinceStart /\ ~reqPaused) =>
            LET h == timerHist[PolledId]
            IN  /\ ret'.kind = "number"
                /\ ret'.val = reqScale * (now - Val(h.sampledAt))
                /\ ret'.val = GetTime - h.simAtLast
                /\ timerHist'[PolledId].acc = GetTime - h.simAtStart
                /\ h.polls = 0 => ret'.val = GetTime - h.simAtStart ]_vars

\* the second poll, 2 ms after start() at scale MaxScale
C11_Witness ==
    /\ op.name \in {"getDelta", "timer.getDelta"}
    /\ ~reqPaused
    /\ reqScale = MaxScale
    /\ Len(timerHist) >= 1
    /\ timerHist[1].constSinceStart
    /\ timerHist[1].polls = 2
    /\ timerHist[1].acc = 2 * MaxScale
    /\ timerHist[1].sampledAt = Some(now)
    /\ ret = Num(MaxScale)

\* C12 (Timer invariant): whatever setScale / setPaused calls happened since
\* the last sample, getDelta() returns the change of getTime() over the
\* interval since that sample (no setTime in between).
C12_TimerIntegral ==
    [][ (/\ IsPoll
         /\ timerHist[PolledId].sampledAt # Undef
         /\ ~timerHist[PolledId].setTimeSince) =>
            /\ ret'.kind = "number"
            /\ ret'.val = GetTime - timerHist[PolledId].simAtLast ]_vars

\* getDelta(n) observed: the real time since the Timer's previous sample, the
\* change of getTime() over it, and whether the rate changed in between
Sampled(n) ==
    IF clock.timers[n] = Undef THEN NoSample
    ELSE LET h == timerHist[Val(clock.timers[n])]
         IN  IF h.sampledAt = Undef \/ h.setTimeSince THEN NoSample
             ELSE [elapsed |-> now - Val(h.sampledAt),
                   truth |-> getTime(clock, now) - h.simAtLast,
                   changed |-> h.rateChangedSince]

SampleAdvance == AdvanceTime(1, MaxSampleElapsed)

SampleGetDelta ==
    \E n \in TimerNames :
        /\ GetDeltaCall(n)
        /\ sample' = Sampled(n)

\* one Timer sampled under setScale and setPaused
SampleNext ==
    \/ SampleAdvance
    \/ SetScale
    \/ SetPaused
    \/ StartTimer
    \/ SampleGetDelta

SampleSpec == Init /\ [][SampleNext]_vars

\* C21 (uniform-scale approximation): when the scale changed (setScale, pause
\* or resume) since a Timer's previous sample, getDelta() returns the Clock's
\* scale field at the call (the requested scale, 0 while paused) times the
\* whole real time since that sample, not the piecewise sum.
C21_UniformScale ==
    [][ (/\ IsPoll
         /\ timerHist[PolledId].sampledAt # Undef
         /\ timerHist[PolledId].rateChangedSince) =>
            /\ clock.scale = Rate
            /\ ret' = Num(clock.scale * (now - Val(timerHist[PolledId].sampledAt))) ]_vars

\* scale 1 for 1 ms, then setScale(MaxScale) for 1 ms: MaxScale * 2, while
\* getTime() moved by 1 + MaxScale
C21_Witness ==
    /\ op.name = "getDelta"
    /\ sample = [elapsed |-> 2, truth |-> 1 + MaxScale, changed |-> TRUE]
    /\ clock.scale = MaxScale
    /\ ret = Num(MaxScale * 2)

\* C22 (paused means scale 0): in every reachable state a paused clock has
\* its scale field at 0; a setScale(s) during the pause changes savedScale
\* to s and no other field.
C22_PausedScaleZero ==
    /\ [](/\ isPaused(clock) = reqPaused
           /\ isPaused(clock) => clock.scale = 0)
    /\ [][ (op'.name = "setScale" /\ isPaused(clock)) =>
                clock' = [clock EXCEPT !.savedScale = op'.arg] ]_vars

\* setScale(MaxScale) 1 ms into a pause of a clock that ran at MinScale and
\* has a started Timer
C22_Witness ==
    /\ op = [name |-> "setScale", arg |-> MaxScale]
    /\ isPaused(clock)
    /\ pauseS = Some(MinScale)
    /\ pausedFor >= 1
    /\ clock.scale = 0
    /\ clock.savedScale = MaxScale
    /\ Len(timerObjs) = 1
    /\ timerObjs[1].timestamp # Undef

\* C23 (Timer while paused): while the clock is paused, getDelta() of a
\* started Timer returns 0, however much real time passed since its last
\* sample and whatever scale was requested during the pause, and sets the
\* Timer's timestamp to the current real time.
C23_PausedDeltaZero ==
    [][ (/\ IsPoll
         /\ isPaused(clock)
         /\ timerObjs[PolledId].timestamp # Undef) =>
            /\ ret' = Num(0)
            /\ timerObjs'[PolledId].timestamp = Some(perfNow(now)) ]_vars

\* getDelta() 2 ms after the previous sample, in a pause during which
\* setScale(MaxScale) was called
C23_Witness ==
    /\ op.name = "getDelta"
    /\ isPaused(clock)
    /\ pausedFor >= 1
    /\ pauseNewS = Some(MaxScale)
    /\ getScale(clock) = MaxScale
    /\ sample.elapsed = 2
    /\ ret = Num(0)
    /\ timerObjs[1].timestamp = Some(perfNow(now))

\* C13 (createTimer): createTimer(name) registers a new Timer under name and
\* starts it (its timestamp is the current real time), so that getDelta(name)
\* returns a number without a start() call.
C13_CreateTimerStarts ==
    [][ /\ op'.name = "createTimer" =>
              LET id == Len(timerObjs) + 1
              IN  /\ clock'.timers = [clock.timers EXCEPT ![op'.arg] = Some(id)]
                  /\ Len(timerObjs') = id
                  /\ timerObjs'[id].timestamp = Some(perfNow(now))
        /\ IsPoll => ret'.kind = "number" ]_vars

\* C14 (startTimer): a registered name gives the same Timer, the registry
\* unchanged and no Timer constructed; an unregistered name gives exactly one
\* new registered Timer.  Either way its timestamp is the current real time,
\* no other Timer changes, and getDelta(name) at the same instant returns 0.
C14_StartTimer ==
    [][ op'.name = "startTimer" =>
            LET n == op'.arg
                known == clock.timers[n] # Undef
                id == IF known THEN Val(clock.timers[n]) ELSE Len(timerObjs) + 1
            IN  /\ known => clock' = clock /\ Len(timerObjs') = Len(timerObjs)
                /\ ~known =>
                      /\ clock' = [clock EXCEPT !.timers[n] = Some(id)]
                      /\ Len(timerObjs') = Len(timerObjs) + 1
                /\ timerObjs'[id] = [name |-> n, timestamp |-> Some(perfNow(now))]
                /\ \A j \in DOMAIN timerObjs : j # id => timerObjs'[j] = timerObjs[j]
                /\ clockGetDelta(clock', timerObjs', n, now').result = Num(0) ]_vars

\* startTimer(name) on the Timer registered first, after real time has passed
C14_Witness ==
    /\ op.name = "startTimer"
    /\ clock.timers[op.arg] = Some(1)
    /\ Len(timerObjs) = 2
    /\ now > NowInit
    /\ timerObjs[1].timestamp = Some(perfNow(now))
    /\ timerObjs[2].timestamp # timerObjs[1].timestamp

\* C15 (unknown timer): getDelta(name) of an unregistered name returns
\* undefined and changes neither the Clock nor any Timer.
C15_GetDeltaAbsent ==
    [][ (op'.name = "getDelta" /\ clock.timers[op'.arg] = Undef) =>
            /\ ret' = Undefined
            /\ clock' = clock
            /\ timerObjs' = timerObjs ]_vars

\* an unregistered name asked for while another name has a started Timer
C15_Witness ==
    /\ op.name = "getDelta"
    /\ ret = Undefined
    /\ clock.timers[op.arg] = Undef
    /\ \E n \in Names : /\ clock.timers[n] # Undef
                         /\ timerObjs[Val(clock.timers[n])].timestamp # Undef

\* the step calls start() or getDelta() on Timer object op'.arg
IsTimerCall == op'.name \in {"timer.start", "timer.getDelta"}

\* C20 (independent Timers): start() or getDelta() on one Timer sets that
\* Timer's timestamp to the current real time and changes nothing else: no
\* other Timer, not the registry, no Clock field; another Timer's next delta
\* and getTime() are what they were.
C20_TimersIndependent ==
    [][ IsTimerCall =>
            LET id == op'.arg
            IN  /\ clock' = clock
                /\ DOMAIN timerObjs' = DOMAIN timerObjs
                /\ timerObjs'[id] =
                      [timerObjs[id] EXCEPT !.timestamp = Some(perfNow(now))]
                /\ \A j \in DOMAIN timerObjs : j # id =>
                      /\ timerObjs'[j] = timerObjs[j]
                      /\ timerGetDelta(clock', timerObjs', j, now').result =
                            timerGetDelta(clock, timerObjs, j, now).result
                /\ GetTimeNext = GetTime ]_vars

\* one Timer polled while another, sampled earlier, keeps its timestamp
C20_Witness ==
    /\ op.name = "timer.getDelta"
    /\ Len(timerObjs) = 2
    /\ \E j \in 1..2 :
          /\ j # op.arg
          /\ timerObjs[j].timestamp = Some(perfNow(NowInit))
    /\ timerObjs[op.arg].timestamp = Some(perfNow(NowInit) + 1)
    /\ ret.kind = "number"
    /\ ret.val # 0

\* C17 (setTime): setTime(t) makes getTime() at that instant t and changes
\* only the anchor pair: scale, savedScale, the pause flag, the registry,
\* every Timer and the publisher are as before.
C17_SetTimeFrame ==
    [][ op'.name = "setTime" =>
            /\ GetTimeNext = op'.arg
            /\ clock' = [clock EXCEPT !.clockTimeMs = op'.arg,
                                      !.realTimestampMs = now]
            /\ UNCHANGED <<timerObjs, hostTimers, nextTimerId>> ]_vars

\* setTime in a pause of a clock that ran at MaxScale and has a started Timer
C17_Witness ==
    /\ op.name = "setTime"
    /\ reqPaused
    /\ isPaused(clock)
    /\ clock.savedScale = MaxScale
    /\ now > NowInit
    /\ clock.realTimestampMs = now
    /\ Len(timerObjs) = 1
    /\ timerObjs[1].timestamp = Some(perfNow(NowInit))
    /\ clock.timers[1] = Some(1)

\* ---------------------------------------------------------------- conversions
Amounts == {RInt(k) : k \in 0..MaxUnits}
UnitArgs == {Undef} \cup {Some(u) : u \in 0..MaxUnitCode}
FieldArgs == {Undef} \cup {Some(RInt(k)) : k \in 0..MaxField}
Periods ==
    [days : FieldArgs, hours : FieldArgs, minutes : FieldArgs, seconds : FieldArgs,
     millis : FieldArgs]

\* a caller about to convert: the arguments it will pass
Request(input, unit) ==
    [fn |-> "request", input |-> input, unit |-> unit, result |-> Value(RInt(0))]
Requests ==
    {Request(Value(a), u) : a \in Amounts, u \in UnitArgs}
        \cup {Request(PeriodValue(p), u) : p \in Periods, u \in UnitArgs}

\* a conversion is called; nothing else is reachable from it
ConvFrame ==
    /\ ret' = NoValue
    /\ UNCHANGED <<now, clock, hostVars, throttleVars, expected, clockHist, pubHist,
                   timerObjs, timerHist, sample>>

Converted(fn, result) ==
    /\ conv' = [conv EXCEPT !.fn = fn, !.result = result]
    /\ op' = [name |-> fn, arg |-> 0]
    /\ ConvFrame

CallTimeMsToUnits ==
    /\ conv.fn = "request"
    /\ conv.input.kind = "value"
    /\ Converted("timeMsToUnits", timeMsToUnits(conv.input.num, conv.unit))

CallUnitsToMs ==
    /\ conv.fn = "request"
    /\ conv.input.kind = "value"
    /\ Converted("unitsToMs", unitsToMs(conv.input.num, conv.unit))

CallUnitsToTimePeriod ==
    /\ conv.fn = "request"
    /\ conv.input.kind = "value"
    /\ Converted("unitsToTimePeriod", unitsToTimePeriod(conv.input.num, conv.unit))

CallTimePeriodToUnits ==
    /\ conv.fn = "request"
    /\ conv.input.kind = "period"
    /\ Converted("timePeriodToUnits", timePeriodToUnits(conv.input.period, conv.unit))

ConvertNext ==
    \/ CallTimeMsToUnits
    \/ CallUnitsToMs
    \/ CallUnitsToTimePeriod
    \/ CallTimePeriodToUnits

ConvertInit ==
    /\ Constructed
    /\ conv \in Requests

ConvertSpec == ConvertInit /\ [][ConvertNext]_vars

\* a conversion has been called and has returned or thrown
Called == conv.fn \notin {"none", "request"}

\* the unit asked for is one of the five of TimeUnit (or left to its default)
Recognised(unit) ==
    unit = Undef \/ Val(unit) \in {Milliseconds, Seconds, Minutes, Hours, Days}

\* C19 (unsupported unit): a conversion asked for a unit outside TimeUnit
\* throws and returns nothing; asked for one of the five units it returns a
\* value; either way the Clock and the Timers are untouched.
C19_UnsupportedUnit ==
    /\ [](Called =>
            /\ ~Recognised(conv.unit) => conv.result = Thrown
            /\ Recognised(conv.unit) =>
                  conv.result.kind =
                      IF conv.fn = "unitsToTimePeriod" THEN "period" ELSE "value")
    /\ [][ conv' # conv => UNCHANGED <<clock, timerObjs, hostTimers>> ]_vars

\* MaxUnits days asked as a period in a unit that does not exist
C19_Witness ==
    /\ conv.fn = "unitsToTimePeriod"
    /\ conv.input = Value(RInt(MaxUnits))
    /\ conv.unit = Some(Days + 1)
    /\ conv.result = Thrown

\* ----------------------------------------------------------------- publisher
PublisherAdvance == AdvanceTime(PubStep, MaxPubElapsed)

EnableTimePublisher ==
    \E isEnabled \in BOOLEAN :
        LET r == enableTimePublisher(clock, hostTimers, nextTimerId, now, isEnabled)
        IN  /\ r.nextTimerId <= MaxTimerIds + 1
            /\ clock' = r.clock
            /\ hostTimers' = r.hostTimers
            /\ nextTimerId' = r.nextTimerId
            /\ lastEnable' = Some(isEnabled)
            /\ disabledDue' = IF isEnabled THEN disabledDue
                               ELSE \E e \in hostTimers : e.cb = "publish" /\ e.due <= now
            /\ op' = [name |-> "enableTimePublisher", arg |-> B2N(isEnabled)]
            /\ UNCHANGED <<now, throttleVars, expected, clockHist, timerVars, conv, sample>>

\* the setInterval callback: PubSub.publish(SYSTEM_TIME_TOPIC, this.getTime())
PublishTick ==
    \E e \in hostTimers :
        /\ e.cb = "publish"
        /\ e.due <= now
        /\ hostTimers' = (hostTimers \ {e}) \cup {[e EXCEPT !.due = now + PublishPeriod]}
        /\ op' = [name |-> "publish", arg |-> getTime(clock, now)]
        /\ UNCHANGED <<now, clock, nextTimerId, throttleVars, expected, clockHist,
                       pubHist, timerVars, conv, sample>>

\* the periodic publish jobs registered with the host
PublishJobs == {e \in hostTimers : e.cb = "publish"}

\* C6 (publisher cancellation): once enableTimePublisher(false) has returned,
\* no publish happens until enableTimePublisher(true) is called again, also
\* when a tick was due at the moment of disabling.
C6_NoPublishAfterDisable ==
    [][ lastEnable = Some(FALSE) => op'.name # "publish" ]_vars

\* real time has passed since a disable that found a tick due
C6_Witness ==
    /\ lastEnable = Some(FALSE)
    /\ disabledDue
    /\ op.name = "advance"
    /\ clock.timePublisherId = Undef

\* C7 (publisher toggle): at most one periodic publish job is registered, one
\* is registered exactly when the latest call was enableTimePublisher(true),
\* and enabling when enabled or disabling when disabled changes nothing.
C7_PublisherToggle ==
    /\ [](/\ Cardinality(PublishJobs) <= 1
          /\ (PublishJobs # {}) <=> (lastEnable = Some(TRUE)))
    /\ [][ (/\ op'.name = "enableTimePublisher"
             /\ op'.arg = B2N(lastEnable = Some(TRUE))) =>
               UNCHANGED <<clock, hostTimers, nextTimerId>> ]_vars

\* enableTimePublisher(true) on a publisher enabled for the second time earlier
C7_Witness ==
    /\ op = [name |-> "enableTimePublisher", arg |-> 1]
    /\ nextTimerId = 3
    /\ Cardinality(PublishJobs) = 1
    /\ \E e \in PublishJobs : e.id = 2 /\ e.due < now + PublishPeriod

PublisherNext ==
    \/ PublisherAdvance
    \/ EnableTimePublisher
    \/ PublishTick

PublisherSpec == Init /\ [][PublisherNext]_vars

\* ------------------------------------------------------------------ throttle
ThrottleAdvance == AdvanceTime(1, MaxThrottleElapsed)

ThrottledCall ==
    \E a \in Args :
        LET r == throttled(last, timeoutId, hostTimers, nextTimerId, now, a)
        IN  /\ Len(calls) < MaxCalls
            /\ last' = r.last
            /\ timeoutId' = r.timeoutId
            /\ hostTimers' = r.hostTimers
            /\ nextTimerId' = r.nextTimerId
            /\ calls' = Append(calls, [t |-> now, arg |-> a])
            /\ op' = [name |-> "throttled", arg |-> a]
            /\ UNCHANGED <<now, clock, invocations, expected, clockHist, pubHist,
                           timerVars, conv, sample>>

\* the setTimeout callback: last = now; fn.apply(context, args)
TimeoutFire ==
    \E e \in hostTimers :
        /\ e.cb = "throttled"
        /\ e.due <= now
        /\ hostTimers' = hostTimers \ {e}
        /\ last' = Some(e.capNow)
        /\ invocations' = Append(invocations, [t |-> now, arg |-> e.args])
        /\ op' = [name |-> "fn", arg |-> e.args]
        /\ UNCHANGED <<now, clock, nextTimerId, timeoutId, calls, expected, clockHist,
                       pubHist, timerVars, conv, sample>>

Lst(q) == q[Len(q)]

\* every call so far was made less than Threshold after the first one
Burst ==
    /\ Len(calls) >= 1
    /\ \A i \in 1..Len(calls) : calls[i].t < calls[1].t + Threshold

\* a deferred invocation is scheduled
Pending == \E e \in hostTimers : e.cb = "throttled"

C9_RateLimit ==
    \A j \in 1..(Len(invocations) - 1) :
        invocations[j + 1].t - invocations[j].t >= Threshold

\* C10 (latest arguments, trailing edge): a wrapper call never invokes the
\* target action itself, and every invocation receives the arguments of the
\* most recent wrapper call made before it.
C10_LatestArgs ==
    [][ /\ op'.name = "throttled" => invocations' = invocations
        /\ invocations' # invocations =>
              /\ op'.name = "fn"
              /\ Len(calls) >= 1
              /\ invocations' = Append(invocations,
                                       [t |-> now, arg |-> Lst(calls).arg]) ]_vars

\* two calls with different arguments before the first invocation
C10_Witness ==
    /\ op.name = "fn"
    /\ Len(calls) = 2
    /\ calls[1].arg # calls[2].arg
    /\ Len(invocations) = 1
    /\ invocations[1].arg = calls[2].arg

ThrottleNext ==
    \/ ThrottleAdvance
    \/ ThrottledCall
    \/ TimeoutFire

ThrottleSpec == Init /\ [][ThrottleNext]_vars

====
